---- MODULE Spec2Model ----
(***************************************************************************)
(* Model of plugins/ai-council/scripts/consult.py: the multi-round,        *)
(* multi-provider consultation (run_consultation), the provider call       *)
(* (query_agent, query_perplexity_api) and the transcript formatting       *)
(* (format_previous_responses).                                            *)
(*                                                                         *)
(* Conventions.                                                            *)
(*  - A Python str is a sequence of fragments (TLA+ strings); "" is <<>>,  *)
(*    concatenation is \o, and a str is truthy iff it is not <<>>.         *)
(*  - Optional[str] is <<>> for None and <<s>> for the str s.              *)
(*  - A Python dict is a sequence of <<key, value>> pairs in insertion     *)
(*    order; assigning to an existing key keeps the key's position.        *)
(***************************************************************************)
EXTENDS Integers, Sequences, FiniteSets, TLC

(* ------------------------------ bounds --------------------------------- *)

\* The largest number of provider calls of one run: participants * rounds.
MaxCalls == 4

\* The largest number of rounds of one run (--rounds).
MaxRounds == 2

(* ------------------------- program constants --------------------------- *)

\* run_consultation(timeout=120), --timeout default.
DefaultTimeout == 120

\* The keys of the registry get_agents() builds, in insertion order.
RegistryKeys == <<"claude", "gemini", "codex", "perplexity">>

\* The registry keys as a set.
KeyUniverse == {RegistryKeys[i] : i \in 1..Len(RegistryKeys)}

\* The question of the run (an opaque text).
Question == <<"Q">>

\* The replies a provider prints, by round (opaque, pairwise distinct texts).
Answers == <<"a1", "a2", "a3", "a4", "a5", "a6">>

\* str(timeout) for the timeouts of the model.
IntStr(n) == IF n = DefaultTimeout THEN "120" ELSE "n"

(* --------------------------- str and dict ------------------------------ *)

\* The value None of an Optional[str].
None == <<>>

\* The Optional[str] holding the str s.
Some(s) == <<s>>

\* Python truthiness of a str: non-empty.
StrTruthy(s) == s # <<>>

\* Python truthiness of an Optional[str]: not None and not "".
OptTruthy(o) == o # None /\ StrTruthy(o[1])

\* Whitespace fragments (what str.strip() removes at the ends).
Whitespace == {" ", "\n"}

RECURSIVE LStrip(_)
LStrip(s) == IF s # <<>> /\ Head(s) \in Whitespace THEN LStrip(Tail(s)) ELSE s

RECURSIVE RStrip(_)
RStrip(s) ==
    IF s # <<>> /\ s[Len(s)] \in Whitespace
    THEN RStrip(SubSeq(s, 1, Len(s) - 1))
    ELSE s

\* str.strip()
Strip(s) == RStrip(LStrip(s))

\* sep.join(parts)
RECURSIVE Join(_, _)
Join(sep, parts) ==
    IF parts = <<>> THEN <<>>
    ELSE IF Len(parts) = 1 THEN parts[1]
    ELSE parts[1] \o sep \o Join(sep, Tail(parts))

\* Whether the str `needle` occurs in the str `hay` (fragment-wise).
Contains(hay, needle) ==
    \E i \in 0..(Len(hay) - Len(needle)) :
        SubSeq(hay, i + 1, i + Len(needle)) = needle

\* list(d.keys())
DictKeys(d) == [i \in 1..Len(d) |-> d[i][1]]

\* set(d.keys())
DictKeySet(d) == {d[i][1] : i \in 1..Len(d)}

\* d[k], for k in d
DictGet(d, k) == d[CHOOSE i \in 1..Len(d) : d[i][1] = k][2]

\* d[k] = v: an existing key keeps its position, a new key is appended.
DictSet(d, k, v) ==
    IF k \in DictKeySet(d)
    THEN [i \in 1..Len(d) |-> IF d[i][1] = k THEN <<k, v>> ELSE d[i]]
    ELSE Append(d, <<k, v>>)

(* ----------------------------- providers ------------------------------- *)

\* AIAgent(name, command, available, is_api)
AIAgent(name, command, available, is_api) ==
    [name |-> name, command |-> command, available |-> available, is_api |-> is_api]

\* get_agents(), given what the readiness probes answer for each key.
get_agents(probe) ==
    << <<"claude",     AIAgent("Claude",     <<"claude", "-p">>,  probe["claude"],     FALSE)>>,
       <<"gemini",     AIAgent("Gemini",     <<"gemini", "-p">>,  probe["gemini"],     FALSE)>>,
       <<"codex",      AIAgent("Codex",      <<"codex", "exec">>, probe["codex"],      FALSE)>>,
       <<"perplexity", AIAgent("Perplexity", <<>>,                probe["perplexity"], TRUE)>> >>

(* ----------------------------- exceptions ------------------------------ *)

\* An exception: its class, str(e), and the code and reason an HTTPError or
\* URLError carries ("" where the class has none).
Exc(cls, msg, code, reason) == [cls |-> cls, msg |-> msg, code |-> code, reason |-> reason]

\* The direct base class of each exception class the calls can raise.
BaseOf(cls) ==
    CASE cls = "HTTPError"          -> "URLError"
      [] cls = "URLError"           -> "OSError"
      [] cls = "TimeoutError"       -> "OSError"
      [] cls = "FileNotFoundError"  -> "OSError"
      [] cls = "OSError"            -> "Exception"
      [] cls = "TimeoutExpired"     -> "SubprocessError"
      [] cls = "SubprocessError"    -> "Exception"
      [] cls = "JSONDecodeError"    -> "ValueError"
      [] cls = "ValueError"         -> "Exception"
      [] cls = "AttributeError"     -> "Exception"
      [] cls = "MemoryError"        -> "Exception"
      [] OTHER                      -> "BaseException"

\* isinstance(e, target): what an `except target` clause tests.
RECURSIVE IsInstance(_, _)
IsInstance(cls, target) ==
    IF cls = target THEN TRUE
    ELSE IF cls = "BaseException" THEN FALSE
    ELSE IsInstance(BaseOf(cls), target)

\* The result of evaluating a call: a returned value, or a raised exception.
NoExc == Exc("", <<>>, "", "")
Returned(v) == [raised |-> FALSE, value |-> v, exc |-> NoExc]
Raised(e) == [raised |-> TRUE, value |-> <<>>, exc |-> e]

(* ------------------------- query_perplexity_api ------------------------ *)

\* json.loads(response.read().decode("utf-8")) and result.get("output",
\* str(result)) on the body the endpoint sent.
ParseOutput(body) ==
    CASE body.json = "malformed" ->
            Raised(Exc("JSONDecodeError", <<"Expecting value">>, "", ""))
      [] body.json = "array" ->
            Raised(Exc("AttributeError", <<"'list' object has no attribute 'get'">>, "", ""))
      [] body.json = "object" /\ body.has_output -> Returned(body.output)
      [] OTHER -> Returned(<<"{...}">>)

\* The try block of query_perplexity_api: the request, then the parse.
PerplexityTry(http) ==
    IF http.kind = "raise" THEN Raised(http.exc) ELSE ParseOutput(http.body)

\* The except clauses of query_perplexity_api, in their order.
PerplexityExcept(e, timeout) ==
    IF IsInstance(e.cls, "HTTPError")
    THEN Returned(<<"Perplexity", <<>>, Some(<<"HTTP ", e.code, ": ", e.reason>>)>>)
    ELSE IF IsInstance(e.cls, "URLError")
    THEN Returned(<<"Perplexity", <<>>, Some(<<"URL Error: ", e.reason>>)>>)
    ELSE IF IsInstance(e.cls, "TimeoutError")
    THEN Returned(<<"Perplexity", <<>>, Some(<<"Timeout after ", IntStr(timeout), "s">>)>>)
    ELSE IF IsInstance(e.cls, "Exception")
    THEN Returned(<<"Perplexity", <<>>, Some(e.msg)>>)
    ELSE Raised(e)

\* query_perplexity_api(prompt, timeout); world.api_key: whether
\* PERPLEXITY_API_KEY is set, world.call: what the HTTP exchange does.
query_perplexity_api(prompt, timeout, world) ==
    IF ~world.api_key
    THEN Returned(<<"Perplexity", <<>>, Some(<<"PERPLEXITY_API_KEY not set">>)>>)
    ELSE LET r == PerplexityTry(world.call)
         IN  IF r.raised
             THEN PerplexityExcept(r.exc, timeout)
             ELSE Returned(<<"Perplexity", r.value, None>>)

(* ------------------------------ query_agent ---------------------------- *)

\* The try block of query_agent: subprocess.run, then the output.
ProcessTry(agent, proc) ==
    IF proc.kind = "raise"
    THEN Raised(proc.exc)
    ELSE LET output == Strip(proc.stdout)
         IN  IF proc.returncode # 0 /\ StrTruthy(proc.stderr)
             THEN Returned(<<agent.name,
                             output \o <<"\n[stderr: ">> \o Strip(proc.stderr) \o <<"]">>,
                             None>>)
             ELSE Returned(<<agent.name, output, None>>)

\* Mutant of ProcessExcept: the catch-all clause is missing.
ProcessExcept_OnlyTimeout(agent, e, timeout) ==
    IF IsInstance(e.cls, "TimeoutExpired")
    THEN Returned(<<agent.name, <<>>, Some(<<"Timeout after ", IntStr(timeout), "s">>)>>)
    ELSE Raised(e)

\* The except clauses of query_agent, in their order.
ProcessExcept(agent, e, timeout) ==
    IF IsInstance(e.cls, "TimeoutExpired")
    THEN Returned(<<agent.name, <<>>, Some(<<"Timeout after ", IntStr(timeout), "s">>)>>)
    ELSE IF IsInstance(e.cls, "Exception")
    THEN Returned(<<agent.name, <<>>, Some(e.msg)>>)
    ELSE Raised(e)

\* Mutant of query_agent: the availability of the provider is not looked at.
query_agent_NoCheck(agent, prompt, timeout, world) ==
    IF agent.is_api
    THEN IF agent.name = "Perplexity"
         THEN query_perplexity_api(prompt, timeout, world)
         ELSE Returned(<<agent.name, <<>>, Some(<<"Unknown API agent: ", agent.name>>)>>)
    ELSE LET r == ProcessTry(agent, world.call)
         IN  IF r.raised THEN ProcessExcept(agent, r.exc, timeout) ELSE r

\* query_agent(agent, prompt, timeout); world.call is what the underlying
\* call (the process, or the HTTP exchange) does.
query_agent(agent, prompt, timeout, world) ==
    IF ~agent.available
    THEN IF agent.is_api
         THEN Returned(<<agent.name, <<>>, Some(<<agent.name, " API key not configured">>)>>)
         ELSE Returned(<<agent.name, <<>>, Some(<<agent.name, " CLI not available">>)>>)
    ELSE IF agent.is_api
    THEN IF agent.name = "Perplexity"
         THEN query_perplexity_api(prompt, timeout, world)
         ELSE Returned(<<agent.name, <<>>, Some(<<"Unknown API agent: ", agent.name>>)>>)
    ELSE LET r == ProcessTry(agent, world.call)
         IN  IF r.raised THEN ProcessExcept(agent, r.exc, timeout) ELSE r

\* What a call does outside the program: whether a process was spawned,
\* the state of the child when the call returns, whether a request was sent.
NoEffects == [spawned |-> FALSE, child |-> "none", requested |-> FALSE]

\* Mutant of ChildAfter: on a timeout the child is left running.
ChildAfter_Abandoned(proc) ==
    IF proc.kind = "exit" THEN "exited"
    ELSE IF IsInstance(proc.exc.cls, "OSError") THEN "none"
    ELSE IF IsInstance(proc.exc.cls, "TimeoutExpired") THEN "running"
    ELSE "killed"

\* The child of subprocess.run(..., timeout=timeout) when it returns or
\* raises: exited; never created when the spawn itself fails with an OS
\* error; killed and waited for on a timeout or any other exception.
ChildAfter(proc) ==
    IF proc.kind = "exit" THEN "exited"
    ELSE IF IsInstance(proc.exc.cls, "OSError") THEN "none"
    ELSE "killed"

\* The effects of query_agent(agent, ...) in the world `world`, along the
\* branches of query_agent and query_perplexity_api.
Effects(agent, world) ==
    IF ~agent.available THEN NoEffects
    ELSE IF agent.is_api
    THEN IF agent.name = "Perplexity" /\ world.api_key
         THEN [spawned |-> FALSE, child |-> "none", requested |-> TRUE]
         ELSE NoEffects
    ELSE [spawned |-> ChildAfter(world.call) # "none",
          child |-> ChildAfter(world.call),
          requested |-> FALSE]

(* ---------------------- format_previous_responses ---------------------- *)

\* The part appended for one entry: f"--- {agent_name} ---\n{response}\n".
Block(agent_name, response) == <<"--- ", agent_name, " ---\n">> \o response \o <<"\n">>

\* Mutant of Parts: entries with a falsy response are not skipped.
RECURSIVE Parts_NoSkip(_)
Parts_NoSkip(responses) ==
    IF responses = <<>> THEN <<>>
    ELSE <<Block(Head(responses)[1], Head(responses)[2])>> \o Parts_NoSkip(Tail(responses))

\* parts, after the loop over responses.items(): entries whose response is
\* falsy are skipped.
RECURSIVE Parts(_)
Parts(responses) ==
    IF responses = <<>> THEN <<>>
    ELSE LET e == Head(responses)
         IN  (IF StrTruthy(e[2]) THEN <<Block(e[1], e[2])>> ELSE <<>>)
             \o Parts(Tail(responses))

\* format_previous_responses(responses)
format_previous_responses(responses) == Join(<<"\n">>, Parts(responses))

(* --------------------- what the underlying calls do -------------------- *)

\* subprocess.run ends with an exit status and the two captured streams.
ProcExit(rc, out, err) ==
    [kind |-> "exit", returncode |-> rc, stdout |-> out, stderr |-> err, exc |-> NoExc]

\* subprocess.run raises.
ProcRaise(e) ==
    [kind |-> "raise", returncode |-> 0, stdout |-> <<>>, stderr |-> <<>>, exc |-> e]

\* The HTTP exchange delivers a body.
HttpBody(json, has_output, output) ==
    [kind |-> "body",
     body |-> [json |-> json, has_output |-> has_output, output |-> output],
     exc |-> NoExc]

\* urlopen or response.read() raises.
HttpRaise(e) ==
    [kind |-> "raise",
     body |-> [json |-> "object", has_output |-> FALSE, output |-> <<>>],
     exc |-> e]

\* The exceptions of the model.
TimeoutExpired == Exc("TimeoutExpired", <<"Command timed out">>, "", "")
FileNotFound == Exc("FileNotFoundError", <<"[Errno 2] No such file or directory">>, "", "")
NoMessage == Exc("MemoryError", <<>>, "", "")
HTTPError == Exc("HTTPError", <<"HTTP Error 500: Internal Server Error">>, "500", "Internal Server Error")
URLError == Exc("URLError", <<"<urlopen error refused>">>, "", "refused")
SocketTimeout == Exc("TimeoutError", <<"timed out">>, "", "")

\* Every behaviour of a process-backed call, for the reply `answer`.
ProcessCalls(answer) ==
    {ProcExit(rc, out, err) :
        rc \in {0, 1},
        out \in {<<>>, <<"\n">>, <<answer>>, <<answer, "\n">>},
        err \in {<<>>, <<"warn", "\n">>}}
    \cup {ProcRaise(e) : e \in {TimeoutExpired, FileNotFound, NoMessage}}

\* Every behaviour of the HTTP exchange, for the reply `answer`.
HttpCalls(answer) ==
    {HttpBody("object", TRUE, out) : out \in {<<>>, <<answer>>}}
    \cup {HttpBody("object", FALSE, <<>>), HttpBody("array", FALSE, <<>>),
          HttpBody("malformed", FALSE, <<>>)}
    \cup {HttpRaise(e) : e \in {HTTPError, URLError, SocketTimeout, NoMessage}}

\* Every world a call of `agent` can meet.
AllWorlds(agent, answer) ==
    IF agent.is_api
    THEN {[api_key |-> key, call |-> c] : key \in BOOLEAN, c \in HttpCalls(answer)}
    ELSE {[api_key |-> TRUE, call |-> c] : c \in ProcessCalls(answer)}

\* The worlds the calls of a run are drawn from: for each kind of provider a
\* reply, an empty reply, a timeout and an exception without a message.
RunWorlds(agent, answer) ==
    IF agent.is_api
    THEN {[api_key |-> TRUE, call |-> c] :
            c \in {HttpBody("object", TRUE, <<answer>>), HttpBody("object", TRUE, <<>>),
                   HttpRaise(SocketTimeout), HttpRaise(NoMessage)}}
    ELSE {[api_key |-> TRUE, call |-> c] :
            c \in {ProcExit(0, <<answer, "\n">>, <<>>), ProcExit(0, <<"\n">>, <<>>),
                   ProcRaise(TimeoutExpired), ProcRaise(NoMessage)}}

(* --------------------------- run_consultation -------------------------- *)

VARIABLES
    registry,         \* main(): agents = get_agents()
    selected_agents,  \* parameter: [given |-> FALSE] is None, else the keys
    rounds,           \* parameter
    timeout,          \* parameter
    agents,           \* the local `agents` (rebound by the selection filter)
    available_agents, \* the participants: dict key -> AIAgent
    results,          \* the report (or the error) being built
    all_responses,    \* the transcript: dict name -> latest response
    round_num,        \* the loop variable (0 before the first round)
    round_results,    \* the current round's result
    prompt_template,  \* the current round's prompt
    futures,          \* the executor's futures of the current round
    pc,               \* where the main thread is
    calls,            \* observer: query_agent calls started, per key
    succeeded,        \* observer: names whose call returned with error None
    outcomes          \* observer: per round, the set of tuples its calls returned

vars == <<registry, selected_agents, rounds, timeout, agents, available_agents,
          results, all_responses, round_num, round_results, prompt_template,
          futures, pc, calls, succeeded, outcomes>>

\* selected_agents = None
NoSelection == [given |-> FALSE, keys |-> {}]

\* selected_agents = the list of `keys`
Selection(keys) == [given |-> TRUE, keys |-> keys]

\* Mutant of SelectionTruthy: a list that is given is truthy, even empty.
SelectionTruthy_Given(sel) == sel.given

\* `if selected_agents:` a list is truthy iff it is given and non-empty.
SelectionTruthy(sel) == sel.given /\ sel.keys # {}

\* Mutant of FilterSelected: the selection is ignored.
FilterSelected_Ignored(ags, sel) == ags

\* {k: v for k, v in agents.items() if k in selected_agents}, when selected.
FilterSelected(ags, sel) ==
    IF SelectionTruthy(sel)
    THEN SelectSeq(ags, LAMBDA e : e[1] \in sel.keys)
    ELSE ags

\* Mutant of FilterAvailable: the availability flag is ignored.
FilterAvailable_All(ags) == ags

\* {k: v for k, v in agents.items() if v.available}
FilterAvailable(ags) == SelectSeq(ags, LAMBDA e : e[2].available)

\* [k for k, v in agents.items() if not v.available]
UnavailableKeys(ags) == DictKeys(SelectSeq(ags, LAMBDA e : ~e[2].available))

\* {"error": "No AI agents available"}
ErrorResult ==
    [error |-> Some(<<"No AI agents available">>), question |-> <<>>, rounds |-> <<>>,
     participants |-> <<>>, unavailable |-> <<>>]

\* The results dict as first built.
NewResults(question, avail, ags) ==
    [error |-> None, question |-> question, rounds |-> <<>>,
     participants |-> DictKeys(avail), unavailable |-> UnavailableKeys(ags)]

\* {"round": round_num, "responses": {}, "errors": {}}
NewRoundResults(n) == [round |-> n, responses |-> <<>>, errors |-> <<>>]

\* The prompt of a round.
BuildPrompt(n, question, responses) ==
    IF n = 1
    THEN <<"You are participating in a multi-AI consultation. Answer. ",
           "Question: ">> \o question
    ELSE <<"You are participating in a multi-AI consultation. Here are responses. ",
           "Question: ">> \o question \o <<"\n\n", "Previous responses:\n">>
         \o format_previous_responses(responses)
         \o <<"\n\n", "Consider these perspectives.">>

\* Mutant of MaxWorkers: a pool of one worker.
MaxWorkers_One(avail) == 1

\* ThreadPoolExecutor(max_workers=len(available_agents))
MaxWorkers(avail) == Len(avail)

\* The states of a future.
NoResult == Returned(<<>>)
NoWorld == [api_key |-> TRUE, call |-> ProcExit(0, <<>>, <<>>)]
NewFuture(key, agent, prompt) ==
    [key |-> key, agent |-> agent, prompt |-> prompt, state |-> "queued",
     world |-> NoWorld, effects |-> NoEffects, result |-> NoResult]
Running == {i \in 1..Len(futures) : futures[i].state = "running"}

\* The observer's record of the round's outcomes once a call has returned r.
Observe(obs, n, r) ==
    IF r.raised THEN obs ELSE [obs EXCEPT ![n] = @ \cup {r.value}]

\* `if error:` on the tuple a call returned.
IsError(t) == OptTruthy(t[3])

\* Mutant of RecordRound: the response is stored whether or not the call
\* failed.
RecordRound_Both(rr, t) ==
    IF OptTruthy(t[3])
    THEN [rr EXCEPT !.errors = DictSet(rr.errors, t[1], t[3][1]),
                    !.responses = DictSet(rr.responses, t[1], t[2])]
    ELSE [rr EXCEPT !.responses = DictSet(rr.responses, t[1], t[2])]

\* The round's result after the loop body has handled the tuple t.
RecordRound(rr, t) ==
    IF IsError(t)
    THEN [rr EXCEPT !.errors = DictSet(rr.errors, t[1], t[3][1])]
    ELSE [rr EXCEPT !.responses = DictSet(rr.responses, t[1], t[2])]

\* Mutant of RecordTranscript: an entry the transcript already holds is kept.
RecordTranscript_KeepFirst(all, t) ==
    IF IsError(t) \/ t[1] \in DictKeySet(all) THEN all ELSE DictSet(all, t[1], t[2])

\* Mutant of RecordTranscript: a failure empties the transcript.
RecordTranscript_ClearOnError(all, t) ==
    IF IsError(t) THEN <<>> ELSE DictSet(all, t[1], t[2])

\* The transcript after the loop body has handled the tuple t.
RecordTranscript(all, t) ==
    IF IsError(t) THEN all ELSE DictSet(all, t[1], t[2])

\* Mutant of AllCollected: the loop is left at the first yielded future.
AllCollected_First == \E i \in 1..Len(futures) : futures[i].state = "yielded"

\* as_completed(futures) is exhausted: every future has been yielded.
AllCollected == \A i \in 1..Len(futures) : futures[i].state = "yielded"

\* The participants a selection leaves (for bounding the inputs).
ParticipantCount(reg, sel) == Len(FilterAvailable(FilterSelected(reg, sel)))

\* The selections the command line can pass: none, or a non-empty list of
\* registry keys.
MainSelections ==
    {NoSelection} \cup {Selection(S) : S \in (SUBSET KeyUniverse) \ {{}}}

Init ==
    /\ \E probe \in [KeyUniverse -> BOOLEAN] : registry = get_agents(probe)
    /\ selected_agents \in MainSelections
    /\ rounds \in 1..MaxRounds
    /\ ParticipantCount(registry, selected_agents) * rounds <= MaxCalls
    /\ timeout = DefaultTimeout
    /\ agents = registry
    /\ available_agents = <<>>
    /\ results = ErrorResult
    /\ all_responses = <<>>
    /\ round_num = 0
    /\ round_results = NewRoundResults(0)
    /\ prompt_template = <<>>
    /\ futures = <<>>
    /\ pc = "start"
    /\ calls = [k \in KeyUniverse |-> 0]
    /\ succeeded = {}
    /\ outcomes = <<>>

\* Lines 177-194: the selection and availability filters, the early return,
\* the report skeleton and the empty transcript.
Begin ==
    /\ pc = "start"
    /\ LET ags == FilterSelected(agents, selected_agents)
           avail == FilterAvailable(ags)
       IN  /\ agents' = ags
           /\ available_agents' = avail
           /\ IF avail = <<>>
              THEN /\ results' = ErrorResult
                   /\ pc' = "error"
              ELSE /\ results' = NewResults(Question, avail, ags)
                   /\ pc' = "loop"
    /\ all_responses' = <<>>
    /\ UNCHANGED <<registry, selected_agents, rounds, timeout, round_num,
                   round_results, prompt_template, futures, calls, succeeded, outcomes>>

\* Lines 196-218: the next iteration: a fresh round result, the round's
\* prompt, and a fresh executor.
StartRound ==
    /\ pc = "loop"
    /\ round_num < rounds
    /\ round_num' = round_num + 1
    /\ round_results' = NewRoundResults(round_num + 1)
    /\ prompt_template' = BuildPrompt(round_num + 1, Question, all_responses)
    /\ futures' = <<>>
    /\ pc' = "submit"
    /\ outcomes' = Append(outcomes, {})
    /\ UNCHANGED <<registry, selected_agents, rounds, timeout, agents,
                   available_agents, results, all_responses, calls, succeeded>>

\* Lines 219-222: executor.submit for the next participant, in dict order.
Submit ==
    /\ pc = "submit"
    /\ LET e == available_agents[Len(futures) + 1]
       IN  futures' = Append(futures, NewFuture(e[1], e[2], prompt_template))
    /\ pc' = IF Len(futures) + 1 = Len(available_agents) THEN "collect" ELSE "submit"
    /\ UNCHANGED <<registry, selected_agents, rounds, timeout, agents,
                   available_agents, results, all_responses, round_num,
                   round_results, prompt_template, calls, succeeded, outcomes>>

\* Mutant of Invoke: the prompt of a call is built when its worker starts,
\* from the transcript as it stands then.
Invoke_LatePrompt(i) ==
    /\ futures[i].state = "queued"
    /\ Cardinality(Running) < MaxWorkers(available_agents)
    /\ futures' = [futures EXCEPT
                      ![i].state = "running",
                      ![i].prompt = BuildPrompt(round_num, Question, all_responses)]
    /\ calls' = [calls EXCEPT ![futures[i].key] = @ + 1]
    /\ UNCHANGED <<registry, selected_agents, rounds, timeout, agents,
                   available_agents, results, all_responses, round_num,
                   round_results, prompt_template, pc, succeeded, outcomes>>

\* A worker thread of the pool takes the queued call i and enters query_agent.
Invoke(i) ==
    /\ futures[i].state = "queued"
    /\ Cardinality(Running) < MaxWorkers(available_agents)
    /\ futures' = [futures EXCEPT ![i].state = "running"]
    /\ calls' = [calls EXCEPT ![futures[i].key] = @ + 1]
    /\ UNCHANGED <<registry, selected_agents, rounds, timeout, agents,
                   available_agents, results, all_responses, round_num,
                   round_results, prompt_template, pc, succeeded, outcomes>>

\* Mutant of Complete: a call that returns an error is queued again.
Complete_Retry(i, w) ==
    /\ futures[i].state = "running"
    /\ LET r == query_agent(futures[i].agent, futures[i].prompt, timeout, w)
       IN  /\ futures' = [futures EXCEPT
                         ![i].state = IF ~r.raised /\ r.value[3] # None
                                      THEN "queued" ELSE "finished",
                         ![i].world = w,
                         ![i].effects = Effects(futures[i].agent, w),
                         ![i].result = r]
       /\ outcomes' = Observe(outcomes, round_num, r)
    /\ UNCHANGED <<registry, selected_agents, rounds, timeout, agents,
                   available_agents, results, all_responses, round_num,
                   round_results, prompt_template, pc, calls, succeeded>>

\* Mutant of Complete: the provider task itself writes its response into the
\* transcript.
Complete_WritesTranscript(i, w) ==
    /\ futures[i].state = "running"
    /\ LET r == query_agent(futures[i].agent, futures[i].prompt, timeout, w)
       IN  /\ futures' = [futures EXCEPT
                            ![i].state = "finished",
                            ![i].world = w,
                            ![i].effects = Effects(futures[i].agent, w),
                            ![i].result = r]
           /\ outcomes' = Observe(outcomes, round_num, r)
           /\ all_responses' = IF r.raised THEN all_responses
                               ELSE RecordTranscript(all_responses, r.value)
    /\ UNCHANGED <<registry, selected_agents, rounds, timeout, agents,
                   available_agents, results, round_num,
                   round_results, prompt_template, pc, calls, succeeded>>

\* query_agent of call i ends (line 220's callable), in the world w.
Complete(i, w) ==
    /\ futures[i].state = "running"
    /\ LET r == query_agent(futures[i].agent, futures[i].prompt, timeout, w)
       IN  /\ futures' = [futures EXCEPT
                            ![i].state = "finished",
                            ![i].world = w,
                            ![i].effects = Effects(futures[i].agent, w),
                            ![i].result = r]
           /\ outcomes' = Observe(outcomes, round_num, r)
    /\ UNCHANGED <<registry, selected_agents, rounds, timeout, agents,
                   available_agents, results, all_responses, round_num,
                   round_results, prompt_template, pc, calls, succeeded>>

\* Mutant of Collect: only the calls that ended without an error are yielded.
Collect_OnlySuccesses(i) ==
    /\ pc = "collect"
    /\ futures[i].state = "finished"
    /\ ~futures[i].result.raised
    /\ futures[i].result.value[3] = None
    /\ futures' = [futures EXCEPT ![i].state = "yielded"]
    /\ pc' = pc
    /\ round_results' = RecordRound(round_results, futures[i].result.value)
    /\ all_responses' = RecordTranscript(all_responses, futures[i].result.value)
    /\ succeeded' = succeeded \cup {futures[i].result.value[1]}
    /\ UNCHANGED <<registry, selected_agents, rounds, timeout, agents,
                   available_agents, results, round_num, prompt_template, calls,
                   outcomes>>

\* Lines 224-230: as_completed yields the finished future i; future.result()
\* returns the tuple (or raises what the call raised) and the body records it.
Collect(i) ==
    /\ pc = "collect"
    /\ futures[i].state = "finished"
    /\ futures' = [futures EXCEPT ![i].state = "yielded"]
    /\ IF futures[i].result.raised
       THEN /\ pc' = "crashed"
            /\ UNCHANGED <<round_results, all_responses, succeeded>>
       ELSE /\ pc' = pc
            /\ round_results' = RecordRound(round_results, futures[i].result.value)
            /\ all_responses' = RecordTranscript(all_responses, futures[i].result.value)
            /\ succeeded' = IF futures[i].result.value[3] = None
                            THEN succeeded \cup {futures[i].result.value[1]}
                            ELSE succeeded
    /\ UNCHANGED <<registry, selected_agents, rounds, timeout, agents,
                   available_agents, results, round_num, prompt_template, calls,
                   outcomes>>

\* Lines 218 (leaving the with block) and 232: the executor is shut down and
\* the round's result is appended to the report.
EndRound ==
    /\ pc = "collect"
    /\ AllCollected
    /\ results' = [results EXCEPT !.rounds = Append(@, round_results)]
    /\ pc' = "loop"
    /\ UNCHANGED <<registry, selected_agents, rounds, timeout, agents,
                   available_agents, all_responses, round_num, round_results,
                   prompt_template, futures, calls, succeeded, outcomes>>

\* Line 246: return results.
Return ==
    /\ pc = "loop"
    /\ round_num >= rounds
    /\ pc' = "done"
    /\ UNCHANGED <<registry, selected_agents, rounds, timeout, agents,
                   available_agents, results, all_responses, round_num,
                   round_results, prompt_template, futures, calls, succeeded, outcomes>>

Next ==
    \/ Begin
    \/ StartRound
    \/ Submit
    \/ \E i \in 1..Len(futures) : Invoke(i)
    \/ \E i \in 1..Len(futures) :
          \E w \in RunWorlds(futures[i].agent, Answers[round_num]) : Complete(i, w)
    \/ \E i \in 1..Len(futures) : Collect(i)
    \/ EndRound
    \/ Return

Spec == Init /\ [][Next]_vars

(* ======================== properties of the run ======================== *)

\* The keys a run selects, read off the inputs: every registry key when the
\* selection is absent, else the registry keys listed in it.
SelectedOf(sel) == IF SelectionTruthy(sel) THEN KeyUniverse \cap sel.keys ELSE KeyUniverse

\* The selected keys whose provider the registry holds as available.
ExpectedParticipants ==
    {k \in SelectedOf(selected_agents) : DictGet(registry, k).available}

\* The selected keys whose provider the registry holds as not available.
ExpectedUnavailable ==
    {k \in SelectedOf(selected_agents) : ~DictGet(registry, k).available}

\* The elements of a sequence, and whether it repeats none.
Range(q) == {q[i] : i \in 1..Len(q)}
NoRepeat(q) == Cardinality(Range(q)) = Len(q)

\* The names a round result records, responses first.
Recorded(rr) == DictKeys(rr.responses) \o DictKeys(rr.errors)

\* How often a name is recorded in a round result.
TimesRecorded(rr, name) ==
    Cardinality({j \in 1..Len(Recorded(rr)) : Recorded(rr)[j] = name})

\* The names of the participants.
ParticipantNames == {available_agents[i][2].name : i \in 1..Len(available_agents)}

\* C1: a returned report of a run with R rounds holds exactly R round
\* results, numbered 1..R in order; each round records every participant
\* exactly once, as a response or as an error, and records nobody else.
C1_ReportShape ==
    pc = "done" =>
        /\ Len(results.rounds) = rounds
        /\ \A n \in 1..Len(results.rounds) :
              /\ results.rounds[n].round = n
              /\ \A name \in ParticipantNames : TimesRecorded(results.rounds[n], name) = 1
              /\ Range(Recorded(results.rounds[n])) \subseteq ParticipantNames

\* C1 witness: a finished two-round run of two participants in which one
\* round holds both a response and an error.
C1_Witness ==
    /\ pc = "done"
    /\ rounds = 2
    /\ Len(available_agents) = 2
    /\ \E n \in 1..Len(results.rounds) :
          /\ Len(results.rounds[n].responses) = 1
          /\ Len(results.rounds[n].errors) = 1

\* C4: when no selected provider is available the run returns the single
\* top-level error at once: no round result, no round started, no call
\* submitted or started.
C4_NoParticipants ==
    (pc # "start" /\ ExpectedParticipants = {}) =>
        /\ pc = "error"
        /\ results = ErrorResult
        /\ results.rounds = <<>>
        /\ round_num = 0
        /\ futures = <<>>
        /\ \A k \in KeyUniverse : calls[k] = 0

\* C4 witness: the error was returned for a selection that names providers,
\* none of them available.
C4_Witness ==
    /\ pc = "error"
    /\ selected_agents.given
    /\ Cardinality(selected_agents.keys) = 2
    /\ ExpectedParticipants = {}

\* C5: the report's participants are exactly the selected keys whose provider
\* is available, its unavailable list exactly the selected keys whose
\* provider is not (over the whole registry when nothing is selected), each
\* listed once; a selection with no available member yields the error.
C5_Selection ==
    pc # "start" =>
        IF ExpectedParticipants = {}
        THEN pc = "error" /\ results.error = Some(<<"No AI agents available">>)
        ELSE /\ pc # "error"
             /\ results.error = None
             /\ Range(results.participants) = ExpectedParticipants
             /\ Range(results.unavailable) = ExpectedUnavailable
             /\ NoRepeat(results.participants)
             /\ NoRepeat(results.unavailable)

\* C5 witness: a report for a selection of three keys, two of them available,
\* in a registry with an available provider outside the selection.
C5_Witness ==
    /\ pc = "done"
    /\ selected_agents.given
    /\ Cardinality(selected_agents.keys) = 3
    /\ Cardinality(ExpectedParticipants) = 2
    /\ Len(results.unavailable) = 1
    /\ \E k \in KeyUniverse \ selected_agents.keys : DictGet(registry, k).available

(* --------------------- a direct call of query_agent -------------------- *)

\* One call of query_agent is in progress, for any provider of any registry
\* (available or not), outside any consultation.
InitInvoke ==
    /\ \E probe \in [KeyUniverse -> BOOLEAN] : registry = get_agents(probe)
    /\ selected_agents = NoSelection
    /\ rounds = 1
    /\ timeout = DefaultTimeout
    /\ agents = registry
    /\ available_agents = <<>>
    /\ results = ErrorResult
    /\ all_responses = <<>>
    /\ round_num \in 1..MaxCalls
    /\ round_results = NewRoundResults(0)
    /\ prompt_template = BuildPrompt(1, Question, <<>>)
    /\ \E k \in KeyUniverse :
          /\ futures = <<[NewFuture(k, DictGet(registry, k), prompt_template)
                            EXCEPT !.state = "running"]>>
          /\ calls = [j \in KeyUniverse |-> IF j = k THEN 1 ELSE 0]
    /\ pc = "call"
    /\ succeeded = {}
    /\ outcomes = [r \in 1..round_num |-> {}]

\* The call ends, in any world it can meet.
NextInvoke ==
    /\ pc = "call"
    /\ \E w \in AllWorlds(futures[1].agent, Answers[round_num]) : Complete(1, w)

SpecInvoke == InitInvoke /\ [][NextInvoke]_vars

(* ------------------------ properties, continued ------------------------ *)

\* The tuple the finished or yielded call i returned.
Outcome(i) == futures[i].result.value

\* The calls of the round that as_completed has yielded.
Yielded == {i \in 1..Len(futures) : futures[i].state = "yielded"}

\* The pairs of a dict, as a set.
Pairs(d) == Range(d)

\* C2 (as claimed): from an empty transcript, each collected Success
\* overwrites its provider's entry and each collected Failure leaves the
\* transcript as it was; no other step writes it; entries are never removed,
\* and only providers with a Success have one.
C2_TranscriptFold ==
    [][/\ \A i \in 1..Len(futures) :
            (/\ Len(futures') = Len(futures)
             /\ futures[i].state = "finished"
             /\ futures'[i].state = "yielded"
             /\ ~futures[i].result.raised)
            => IF Outcome(i)[3] = None
               THEN Pairs(all_responses') =
                       {e \in Pairs(all_responses) : e[1] # Outcome(i)[1]}
                       \cup {<<Outcome(i)[1], Outcome(i)[2]>>}
               ELSE all_responses' = all_responses
       /\ DictKeySet(all_responses) \subseteq DictKeySet(all_responses')
       /\ DictKeySet(all_responses') \subseteq succeeded'
      ]_vars

\* The label line of a provider's block in the formatted transcript.
Header(name) == <<"--- ", name, " ---\n">>

\* The prompt of round k > 1 has just been built from the transcript of
\* rounds 1..k-1.
PromptJustBuilt == pc = "submit" /\ round_num > 1

\* C3 (as claimed): the prompt of a round k > 1 holds a block for every
\* provider with a Success in rounds 1..k-1, whatever its text, and no block
\* for a provider that never succeeded.
C3_BlocksForSucceeded ==
    PromptJustBuilt =>
        \A name \in ParticipantNames :
            Contains(prompt_template, Header(name)) <=> name \in succeeded

\* C3 (amended): the prompt of a round k > 1 holds the block of exactly the
\* providers whose transcript entry is a non-empty text, with that text; a
\* provider whose entry is empty or absent, so every provider that never
\* succeeded, has no block.
C3_BlocksForNonEmpty ==
    PromptJustBuilt =>
        \A name \in ParticipantNames :
            /\ Contains(prompt_template, Header(name))
                  <=> (/\ name \in DictKeySet(all_responses)
                       /\ StrTruthy(DictGet(all_responses, name)))
            /\ Contains(prompt_template, Header(name))
                  => Contains(prompt_template, Block(name, DictGet(all_responses, name)))
            /\ name \notin succeeded => ~Contains(prompt_template, Header(name))

\* C3 witness: round 2's prompt of two participants that both succeeded in
\* round 1, one with a text (block present), one with an empty reply (none).
C3_Witness ==
    /\ PromptJustBuilt
    /\ Cardinality(ParticipantNames \cap succeeded) = 2
    /\ \E a, b \in ParticipantNames :
          /\ Contains(prompt_template, Header(a))
          /\ ~Contains(prompt_template, Header(b))

\* C6: the calls of a round are independent: a submitted call never waits
\* for a worker held by another call; what is recorded for a call that
\* returned a Success or a Failure with a reason is its own outcome, under
\* its own name; and failures end neither the round nor the run: no crash,
\* and a returned report holds every round.
C6_Independent ==
    /\ \A i \in 1..Len(futures) :
          futures[i].state = "queued"
             => Cardinality(Running) < MaxWorkers(available_agents)
    /\ pc \in {"submit", "collect"} =>
          \A i \in Yielded :
             /\ Outcome(i)[3] = None =>
                   /\ <<Outcome(i)[1], Outcome(i)[2]>> \in Pairs(round_results.responses)
                   /\ Outcome(i)[1] \notin DictKeySet(round_results.errors)
             /\ OptTruthy(Outcome(i)[3]) =>
                   /\ <<Outcome(i)[1], Outcome(i)[3][1]>> \in Pairs(round_results.errors)
                   /\ Outcome(i)[1] \notin DictKeySet(round_results.responses)
    /\ pc # "crashed"
    /\ pc = "done" => Len(results.rounds) = rounds

\* C6 witness: in round 1 one participant timed out and was collected while
\* the other, still running, was collected later with its reply; the run
\* went on to finish round 2.
C6_Witness ==
    /\ pc = "done"
    /\ rounds = 2
    /\ Len(results.rounds) = 2
    /\ Len(results.rounds[1].errors) = 1
    /\ results.rounds[1].errors[1][2] = <<"Timeout after ", "120", "s">>
    /\ Len(results.rounds[1].responses) = 1
    /\ results.rounds[1].responses[1][2] = <<Answers[1]>>
    /\ Len(Recorded(results.rounds[2])) = 2

\* The calls of the round that have not yet ended.
Unfinished == {i \in 1..Len(futures) : futures[i].state \in {"queued", "running"}}

\* C7: rounds do not overlap: while a call of the round has not ended, the
\* main thread is still inside that round and the round's result is not in
\* the report; every call in flight carries the current round's prompt; and
\* a round's result is in the report only once all its calls were collected.
C7_NoOverlap ==
    /\ Unfinished # {} =>
          /\ pc \in {"submit", "collect"}
          /\ Len(results.rounds) = round_num - 1
    /\ \A i \in 1..Len(futures) : futures[i].prompt = prompt_template
    /\ pc \in {"loop", "done"} =>
          /\ Len(results.rounds) = round_num
          /\ Yielded = 1..Len(futures)
    /\ \A k \in KeyUniverse : calls[k] <= Len(results.rounds) + 1

\* C7 witness: in round 2 one call has been collected while another is
\* still running, and the report holds round 1 only.
C7_Witness ==
    /\ pc = "collect"
    /\ round_num = 2
    /\ Len(results.rounds) = 1
    /\ Yielded # {}
    /\ \E i \in 1..Len(futures) : futures[i].state = "running"

\* Whether the call of key k has been started in the current round.
StartedNow(k) ==
    \E i \in 1..Len(futures) : futures[i].key = k /\ futures[i].state # "queued"

\* C8: the participant set is fixed at the start and every round calls each
\* participant exactly once, whatever happened before: the futures of a round
\* are the participants in order, a participant's calls number the rounds
\* begun before plus one once its call of this round has started, nobody
\* else is ever called, and a finished run has called each participant once
\* per round.
C8_OneCallPerRound ==
    pc \notin {"start", "error"} =>
        /\ DictKeys(available_agents) = results.participants
        /\ Range(results.participants) = ExpectedParticipants
        /\ Len(futures) <= Len(results.participants)
        /\ \A i \in 1..Len(futures) : futures[i].key = results.participants[i]
        /\ pc = "collect" => Len(futures) = Len(results.participants)
        /\ \A k \in KeyUniverse \ Range(results.participants) : calls[k] = 0
        /\ \A k \in Range(results.participants) :
              IF pc \in {"submit", "collect"}
              THEN calls[k] = (round_num - 1) + (IF StartedNow(k) THEN 1 ELSE 0)
              ELSE calls[k] = round_num
        /\ pc = "done" => round_num = rounds

\* C8 witness: a finished two-round run in which a participant failed in
\* round 1 and was called again in round 2, where it answered.
C8_Witness ==
    /\ pc = "done"
    /\ rounds = 2
    /\ \E i \in 1..Len(available_agents) :
          /\ available_agents[i][2].name \in DictKeySet(results.rounds[1].errors)
          /\ available_agents[i][2].name \in DictKeySet(results.rounds[2].responses)
          /\ calls[available_agents[i][1]] = 2

\* C9 (as claimed): every collected call that returned a Failure (an error
\* that is not None), whatever its reason, is in the round's errors under
\* its name and not in the round's responses.
C9_FailuresRecorded ==
    pc \in {"submit", "collect"} =>
        \A i \in Yielded :
            Outcome(i)[3] # None =>
                /\ Outcome(i)[1] \in DictKeySet(round_results.errors)
                /\ Outcome(i)[1] \notin DictKeySet(round_results.responses)

\* Whether the world w makes the underlying call of an available agent fail.
CallFails(agent, w) ==
    /\ agent.available
    /\ \/ w.call.kind = "raise"
       \/ agent.is_api /\ ~w.api_key
       \/ agent.is_api /\ w.call.kind = "body" /\ w.call.body.json \in {"malformed", "array"}

\* C10: query_agent lets no exception escape: whatever the underlying call
\* does, it returns a tuple, and when the underlying call failed the tuple is
\* a Failure: an empty response and an error that is not None.
C10_NoEscape ==
    \A i \in 1..Len(futures) :
        futures[i].state = "finished" =>
            /\ ~futures[i].result.raised
            /\ Len(Outcome(i)) = 3
            /\ Outcome(i)[1] = futures[i].agent.name
            /\ CallFails(futures[i].agent, futures[i].world) =>
                  /\ Outcome(i)[2] = <<>>
                  /\ Outcome(i)[3] # None

\* C10 witness: a process-backed call that could not spawn its program has
\* returned the Failure carrying the OS error's message.
C10_Witness ==
    /\ futures[1].state = "finished"
    /\ ~futures[1].agent.is_api
    /\ futures[1].world.call = ProcRaise(FileNotFound)
    /\ Outcome(1)[3] = Some(FileNotFound.msg)

(* ------------------- runs and direct calls together ------------------- *)

\* A consultation started from the command line, or a direct call of
\* query_agent on any provider of the registry.
InitAll == Init \/ InitInvoke
NextAll == Next \/ NextInvoke
SpecAll == InitAll /\ [][NextAll]_vars

\* The providers of the registry that are not available.
UnavailableAgents ==
    {DictGet(registry, k) : k \in {j \in DictKeySet(registry) : ~DictGet(registry, j).available}}

\* The failure query_agent returns for an unavailable provider, as the spec
\* words it and as the code words it for each kind of provider.
ClaimedUnavailable(agent) ==
    <<agent.name, <<>>, Some(<<agent.name, " not available">>)>>
CodeUnavailable(agent) ==
    <<agent.name, <<>>,
      Some(<<agent.name, IF agent.is_api THEN " API key not configured"
                                          ELSE " CLI not available">>)>>

\* No success of an unavailable provider is recorded in any round, current
\* or reported, or in the transcript.
NoUnavailableSuccess ==
    \A a \in UnavailableAgents :
        /\ a.name \notin succeeded
        /\ a.name \notin DictKeySet(all_responses)
        /\ a.name \notin DictKeySet(round_results.responses)
        /\ \A n \in 1..Len(results.rounds) :
               a.name \notin DictKeySet(results.rounds[n].responses)

\* C11 (as claimed): an unavailable provider never has a Success in any
\* round, and a call of it returns the Failure "<name> not available"
\* without spawning a process or sending a request.
C11_FixedFailure ==
    /\ NoUnavailableSuccess
    /\ \A i \in 1..Len(futures) :
          (futures[i].state = "finished" /\ ~futures[i].agent.available) =>
              /\ ~futures[i].result.raised
              /\ Outcome(i) = ClaimedUnavailable(futures[i].agent)
              /\ futures[i].effects = NoEffects

\* C11 (amended): an unavailable provider never has a Success in any round
\* (a run does not even call it: it has no Failure in a round either), and
\* a call of it returns at once, with no process spawned and no request
\* sent, the Failure "<name> CLI not available" for a process-backed
\* provider and "<name> API key not configured" for an API-backed one.
C11_UnavailableFailure ==
    /\ NoUnavailableSuccess
    /\ pc # "call" =>
          \A a \in UnavailableAgents :
             /\ \A i \in 1..Len(futures) : futures[i].agent # a
             /\ a.name \notin DictKeySet(round_results.errors)
             /\ \A n \in 1..Len(results.rounds) :
                    a.name \notin DictKeySet(results.rounds[n].errors)
    /\ \A i \in 1..Len(futures) :
          (futures[i].state = "finished" /\ ~futures[i].agent.available) =>
              /\ ~futures[i].result.raised
              /\ Outcome(i) = CodeUnavailable(futures[i].agent)
              /\ Outcome(i)[3] # None
              /\ futures[i].effects = NoEffects

\* C11 witness: a direct call of an unavailable process-backed provider has
\* returned, in a world where its program would have answered.
C11_Witness ==
    /\ pc = "call"
    /\ futures[1].state = "finished"
    /\ ~futures[1].agent.available
    /\ ~futures[1].agent.is_api
    /\ futures[1].world.call.kind = "exit"
    /\ futures[1].world.call.returncode = 0

\* The one participant of a run with a single participant.
OnlyParticipant == available_agents[1][2]

\* The scenario of C12: two selected providers, A available and B not, two
\* rounds; A answers "a1" in round 1 and "a2" in round 2.
TwoRoundScenario ==
    /\ pc # "start"
    /\ rounds = 2
    /\ Cardinality(ExpectedParticipants) = 1
    /\ Cardinality(ExpectedUnavailable) = 1
ScenarioB == DictGet(registry, CHOOSE k \in ExpectedUnavailable : TRUE)
AnsweredRound(n) ==
    /\ Len(outcomes) >= n
    /\ outcomes[n] = {<<OnlyParticipant.name, <<Answers[n]>>, None>>}

\* C12 (as claimed): in the scenario, round 1 records A as Success("a1") and
\* B as Failure("B not available"); round 2's prompt embeds A's block with
\* "a1" and no text from B; round 2 records A as Success("a2") and B as a
\* Failure again; the final transcript is exactly {A: "a2"}.
C12_ScenarioAsClaimed ==
    (TwoRoundScenario /\ pc = "done" /\ AnsweredRound(1) /\ AnsweredRound(2)) =>
        /\ Pairs(results.rounds[1].responses) = {<<OnlyParticipant.name, <<"a1">>>>}
        /\ Pairs(results.rounds[1].errors) =
              {<<ScenarioB.name, <<ScenarioB.name, " not available">>>>}
        /\ Contains(prompt_template, Block(OnlyParticipant.name, <<"a1">>))
        /\ ~Contains(prompt_template, <<ScenarioB.name>>)
        /\ Pairs(results.rounds[2].responses) = {<<OnlyParticipant.name, <<"a2">>>>}
        /\ DictKeySet(results.rounds[2].errors) = {ScenarioB.name}
        /\ all_responses = <<<<OnlyParticipant.name, <<"a2">>>>>>

\* C12 (amended): in the scenario B is not a participant: it is listed as
\* unavailable in the report and recorded in no round. Round 1 records A as
\* Success("a1") and nothing else; round 2's prompt, the prompt A is called
\* with, embeds A's block with "a1" and no text from B; round 2 records A as
\* Success("a2") and nothing else; the final transcript is exactly {A: "a2"}.
C12_ScenarioInCode ==
    /\ (TwoRoundScenario /\ AnsweredRound(1) /\ round_num = 2) =>
          /\ Contains(prompt_template, Block(OnlyParticipant.name, <<"a1">>))
          /\ ~Contains(prompt_template, <<ScenarioB.name>>)
          /\ \A i \in 1..Len(futures) : futures[i].prompt = prompt_template
    /\ (TwoRoundScenario /\ pc = "done" /\ AnsweredRound(1) /\ AnsweredRound(2)) =>
          /\ results.participants = <<CHOOSE k \in ExpectedParticipants : TRUE>>
          /\ results.unavailable = <<CHOOSE k \in ExpectedUnavailable : TRUE>>
          /\ results.rounds[1] =
                [round |-> 1, responses |-> <<<<OnlyParticipant.name, <<"a1">>>>>>,
                 errors |-> <<>>]
          /\ results.rounds[2] =
                [round |-> 2, responses |-> <<<<OnlyParticipant.name, <<"a2">>>>>>,
                 errors |-> <<>>]
          /\ all_responses = <<<<OnlyParticipant.name, <<"a2">>>>>>

\* C12 witness: the scenario with A = Claude and B = Gemini has run to its
\* report.
C12_Witness ==
    /\ TwoRoundScenario
    /\ pc = "done"
    /\ AnsweredRound(1)
    /\ AnsweredRound(2)
    /\ OnlyParticipant.name = "Claude"
    /\ ScenarioB.name = "Gemini"

\* The keyed results as a function of the outcomes alone, whatever the order
\* in which the calls of a round ended: the responses and the errors of round
\* n, and the transcript after all rounds (each provider's text of the last
\* round in which its outcome was taken as a response).
ResponsesOf(n) == {<<t[1], t[2]>> : t \in {u \in outcomes[n] : ~IsError(u)}}
ErrorsOf(n) == {<<t[1], t[3][1]>> : t \in {u \in outcomes[n] : IsError(u)}}
RespondedIn(name) ==
    {n \in 1..Len(outcomes) : \E t \in outcomes[n] : t[1] = name /\ ~IsError(t)}
LastRound(S) == CHOOSE n \in S : \A k \in S : k <= n
TranscriptOf ==
    UNION {{f \in ResponsesOf(LastRound(RespondedIn(name))) : f[1] = name} :
              name \in {x \in ParticipantNames : RespondedIn(x) # {}}}

\* C13: for given outcomes of the calls, the keyed results do not depend on
\* the order in which the calls of a round end: each reported round maps
\* each provider to the outcome of its call, one entry per provider, and the
\* returned transcript maps each provider to the text of its last response,
\* one entry per provider.
C13_OrderFree ==
    /\ \A n \in 1..Len(results.rounds) :
          /\ Pairs(results.rounds[n].responses) = ResponsesOf(n)
          /\ Pairs(results.rounds[n].errors) = ErrorsOf(n)
          /\ NoRepeat(Recorded(results.rounds[n]))
    /\ pc = "done" =>
          /\ Pairs(all_responses) = TranscriptOf
          /\ NoRepeat(DictKeys(all_responses))

\* C13 witness: a returned two-round report of Claude and Gemini, submitted
\* in this order, whose round 1 ended with Gemini's reply collected before
\* Claude's and whose round 2 ended the other way round, Gemini failing.
C13_Witness ==
    /\ pc = "done"
    /\ DictKeys(available_agents) = <<"claude", "gemini">>
    /\ rounds = 2
    /\ DictKeys(results.rounds[1].responses) = <<"Gemini", "Claude">>
    /\ DictKeys(results.rounds[2].responses) = <<"Claude">>
    /\ DictKeys(results.rounds[2].errors) = <<"Gemini">>

\* The process-backed calls that ran into their timeout.
TimedOut ==
    {i \in 1..Len(futures) :
        /\ futures[i].state = "finished"
        /\ futures[i].agent.available
        /\ ~futures[i].agent.is_api
        /\ futures[i].world.call.kind = "raise"
        /\ IsInstance(futures[i].world.call.exc.cls, "TimeoutExpired")}

\* C14: when the call of a process-backed provider exceeds its timeout,
\* query_agent returns the Failure "Timeout after <timeout>s", and the child
\* it spawned is not running any more when it returns: it was killed.
C14_TimeoutKills ==
    \A i \in TimedOut :
        /\ ~futures[i].result.raised
        /\ Outcome(i) = <<futures[i].agent.name, <<>>,
                          Some(<<"Timeout after ", IntStr(timeout), "s">>)>>
        /\ futures[i].effects.spawned
        /\ futures[i].effects.child # "running"
        /\ futures[i].effects.child = "killed"

\* C14 witness: a direct call of the available process-backed provider
\* Codex ran into the timeout of 120 seconds and has returned.
C14_Witness ==
    /\ pc = "call"
    /\ TimedOut = {1}
    /\ futures[1].agent.name = "Codex"
    /\ Outcome(1)[3] = Some(<<"Timeout after ", "120", "s">>)

\* The transcript as it stood at the end of round k - 1, from the outcomes of
\* rounds 1..k-1: the rounds before k in which a provider responded, and the
\* text of its last response before round k.
RespondedBefore(name, k) == {n \in RespondedIn(name) : n < k}
TextBefore(name, k) ==
    (CHOOSE e \in ResponsesOf(LastRound(RespondedBefore(name, k))) : e[1] = name)[2]

\* C15: every call of a round carries the same prompt, the one built before
\* the round's calls were submitted, from the transcript as it stood at the
\* end of the previous round: its blocks are the texts of rounds before this
\* one, and nothing a provider answers in round k is in a prompt of round k.
C15_SamePrompt ==
    round_num >= 1 =>
        /\ \A i \in 1..Len(futures) : futures[i].prompt = prompt_template
        /\ \A name \in ParticipantNames :
              IF RespondedBefore(name, round_num) # {}
                 /\ StrTruthy(TextBefore(name, round_num))
              THEN Contains(prompt_template, Block(name, TextBefore(name, round_num)))
              ELSE ~Contains(prompt_template, Header(name))
        /\ ~Contains(prompt_template, <<Answers[round_num]>>)

\* C15 witness: in round 2 the reply of one participant has been recorded
\* in the transcript while the call of another has not even started.
C15_Witness ==
    /\ round_num = 2
    /\ pc = "collect"
    /\ \E i \in Yielded :
          /\ Outcome(i)[2] = <<"a2">>
          /\ <<Outcome(i)[1], <<"a2">>>> \in Pairs(all_responses)
    /\ \E i \in 1..Len(futures) : futures[i].state = "queued"
    /\ Contains(prompt_template, <<"a1">>)

\* C16 (as claimed): the transcript is written only by the main thread,
\* never by a step of a provider task, and only when every call of the
\* current round has ended: no write while a call is queued or running.
C16_WriteAfterAll ==
    [][all_responses' # all_responses =>
          /\ pc = "collect"
          /\ \A i \in 1..Len(futures) :
                futures[i].state \in {"queued", "running"}
                   => futures'[i] = futures[i]
          /\ Unfinished = {}
      ]_vars

\* C16 (amended): the transcript is written only by the main thread, in the
\* step that handles a call as_completed has yielded, never by a step of a
\* provider task; such a write can happen while other calls of the round are
\* still queued or running, and it changes no prompt: the calls of the round
\* keep the prompt they were submitted with.
C16_CoordinatorWrites ==
    [][all_responses' # all_responses =>
          /\ pc = "collect"
          /\ pc' = "collect"
          /\ \A i \in 1..Len(futures) :
                futures[i].state \in {"queued", "running"}
                   => futures'[i] = futures[i]
          /\ \E i \in 1..Len(futures) :
                /\ futures[i].state = "finished"
                /\ futures'[i].state = "yielded"
                /\ ~IsError(Outcome(i))
                /\ all_responses' = DictSet(all_responses, Outcome(i)[1], Outcome(i)[2])
          /\ prompt_template' = prompt_template
          /\ \A i \in 1..Len(futures) : futures'[i].prompt = futures[i].prompt
      ]_vars

\* C16 witness: in round 1 the transcript already holds the reply of one
\* participant while the call of another is still running.
C16_Witness ==
    /\ pc = "collect"
    /\ round_num = 1
    /\ all_responses # <<>>
    /\ StrTruthy(all_responses[1][2])
    /\ Running # {}

\* The identifiers under which outcomes are recorded: in the round being
\* collected, in the reported rounds, and in the transcript.
RecordedIdentifiers ==
    Range(Recorded(round_results))
    \cup UNION {Range(Recorded(results.rounds[n])) : n \in 1..Len(results.rounds)}
    \cup DictKeySet(all_responses)

\* C17 (as claimed): outcomes are recorded, and transcript entries stored,
\* under the provider keys the report lists as participants: every
\* identifier in a round result or in the transcript is one of the report's
\* participants.
C17_KeysAreParticipants ==
    RecordedIdentifiers \subseteq Range(results.participants)

\* Where a fragment sequence first occurs in a text, and where a key stands
\* in a dict.
PosIn(hay, needle) ==
    CHOOSE i \in 1..Len(hay) :
        /\ SubSeq(hay, i, i + Len(needle) - 1) = needle
        /\ \A j \in 1..(i - 1) : SubSeq(hay, j, j + Len(needle) - 1) # needle
KeyIndex(d, k) == CHOOSE i \in 1..Len(d) : d[i][1] = k

\* The blocks of the prompt stand in the order of the transcript's entries.
BlocksInTranscriptOrder ==
    \A a, b \in DictKeySet(all_responses) :
        (/\ Contains(prompt_template, Header(a))
         /\ Contains(prompt_template, Header(b))
         /\ KeyIndex(all_responses, a) < KeyIndex(all_responses, b))
        => PosIn(prompt_template, Header(a)) < PosIn(prompt_template, Header(b))

\* C18 (as claimed): the blocks of the formatted transcript stand in the
\* order in which the providers first had a Success recorded: an entry is put
\* behind all entries when a Success of a provider without an entry is
\* collected (so within a round in the order the calls are yielded), a later
\* Success of the same provider replaces the text and keeps the position, no
\* other outcome makes or moves an entry, and a prompt built for a round
\* k >= 2 holds its blocks in the order of the entries.
C18_FirstSuccessOrder ==
    [][/\ all_responses' # all_responses =>
             \E i \in 1..Len(futures) :
                /\ futures[i].state = "finished"
                /\ futures'[i].state = "yielded"
                /\ Outcome(i)[3] = None
                /\ IF Outcome(i)[1] \in DictKeySet(all_responses)
                   THEN /\ DictKeys(all_responses') = DictKeys(all_responses)
                        /\ all_responses'[KeyIndex(all_responses, Outcome(i)[1])][2]
                              = Outcome(i)[2]
                   ELSE all_responses' =
                           Append(all_responses, <<Outcome(i)[1], Outcome(i)[2]>>)
       /\ PromptJustBuilt' => BlocksInTranscriptOrder'
      ]_vars

(* ------------------ run_consultation with any selection ----------------- *)

\* A key no provider of the registry has.
UnknownKey == "other"

\* The selections a caller of run_consultation can pass: None, or any list of
\* keys, empty or with keys the registry does not hold.
AnySelections ==
    {NoSelection} \cup {Selection(S) : S \in SUBSET (KeyUniverse \cup {UnknownKey})}

\* run_consultation is called with any selection; its first statements, up
\* to the early return or the report skeleton, are run.
InitSelect ==
    /\ \E probe \in [KeyUniverse -> BOOLEAN] : registry = get_agents(probe)
    /\ selected_agents \in AnySelections
    /\ rounds = 1
    /\ timeout = DefaultTimeout
    /\ agents = registry
    /\ available_agents = <<>>
    /\ results = ErrorResult
    /\ all_responses = <<>>
    /\ round_num = 0
    /\ round_results = NewRoundResults(0)
    /\ prompt_template = <<>>
    /\ futures = <<>>
    /\ pc = "start"
    /\ calls = [k \in KeyUniverse |-> 0]
    /\ succeeded = {}
    /\ outcomes = <<>>
NextSelect == Begin
SpecSelect == InitSelect /\ [][NextSelect]_vars

\* The registry keys, in registry order, that are in the set S and whose
\* provider is, or is not, available.
AvailableIn(S) ==
    SelectSeq(DictKeys(registry), LAMBDA k : k \in S /\ DictGet(registry, k).available)
UnavailableIn(S) ==
    SelectSeq(DictKeys(registry), LAMBDA k : k \in S /\ ~DictGet(registry, k).available)

\* The keys the filters work over: the whole registry for no selection and
\* for the empty selection, the selected keys otherwise.
WorkedOver ==
    IF ~selected_agents.given \/ selected_agents.keys = {}
    THEN DictKeySet(registry)
    ELSE selected_agents.keys

\* C19: the empty selection is treated like no selection: participants and
\* unavailable are computed over the full registry, and the run ends with
\* the no-participants error only if no provider at all is available; the
\* selected keys the registry does not hold are ignored: they are in
\* neither list.
C19_EmptyAndUnknown ==
    /\ pc = "error" <=> (pc # "start" /\ AvailableIn(WorkedOver) = <<>>)
    /\ pc = "loop" =>
          /\ results.error = None
          /\ results.participants = AvailableIn(WorkedOver)
          /\ results.unavailable = UnavailableIn(WorkedOver)
          /\ UnknownKey \notin Range(results.participants) \cup Range(results.unavailable)
    /\ (pc = "loop" /\ selected_agents = Selection({})) =>
          /\ results.participants = DictKeys(FilterAvailable(registry))
          /\ results.unavailable = UnavailableKeys(registry)

\* C19 witness: called with the empty selection, the run goes on with the
\* available providers of the registry and lists the others as unavailable.
C19_Witness ==
    /\ pc = "loop"
    /\ selected_agents = Selection({})
    /\ Len(results.participants) = 2
    /\ Len(results.unavailable) = 2

(* --------------------------- fair scheduling --------------------------- *)

\* The most participants of a run checked for termination.
MaxLiveParticipants == 2

\* The steps of the provider task of call i: a pool worker takes it up, and
\* the call returns, by a reply, an error or its timeout.
TaskStep(i) ==
    /\ i \in 1..Len(futures)
    /\ \/ Invoke(i)
       \/ \E w \in RunWorlds(futures[i].agent, Answers[round_num]) : Complete(i, w)

\* The steps of the main thread.
MainStep ==
    \/ Begin
    \/ StartRound
    \/ Submit
    \/ \E i \in 1..Len(futures) : Collect(i)
    \/ EndRound
    \/ Return

\* The main thread keeps running, every provider task is scheduled, and every
\* call that was started returns.
Fairness ==
    /\ WF_vars(MainStep)
    /\ \A i \in 1..Len(RegistryKeys) : WF_vars(TaskStep(i))

\* The runs checked for termination: started from the command line without
\* --agents, with at most MaxLiveParticipants available providers.
InitLive ==
    /\ Init
    /\ selected_agents = NoSelection
    /\ ParticipantCount(registry, selected_agents) <= MaxLiveParticipants

SpecLive == InitLive /\ [][Next]_vars /\ Fairness

\* C20: when every call returns and the provider tasks are scheduled
\* fairly, a run with at least one participant and R rounds ends: it returns
\* its report, and the report holds every round 1..R. So it neither waits
\* forever for a call that has ended nor stops before round R.
C20_Terminates ==
    (pc = "loop" /\ available_agents # <<>>)
        ~> (/\ pc = "done"
            /\ Len(results.rounds) = rounds
            /\ \A n \in 1..rounds : results.rounds[n].round = n)

\* C20 witness: a run of two participants and two rounds has returned its
\* report although a call timed out in each round.
C20_Witness ==
    /\ pc = "done"
    /\ Len(available_agents) = 2
    /\ rounds = 2
    /\ Len(results.rounds) = 2
    /\ results.rounds[1].errors # <<>>
    /\ results.rounds[2].errors # <<>>

====
